---- MODULE Spec2Model ----
(***************************************************************************)
(* Model of the quote PDF service: the POST /generate-quote-pdf handler    *)
(* of three snapshots of the service (src/index.js, src/unnamed/part_003   *)
(* and src/unnamed/part_004), with fetchQuoteData and the design settings  *)
(* of generateQuoteHtml.                                                   *)
(*                                                                         *)
(* JavaScript runs a handler without interruption between two awaits, so   *)
(* one action is the settling of one awaited call followed by all the      *)
(* synchronous code up to the next awaited call (or to the end of the      *)
(* handler).  The outcome of an awaited call (data store, browser,         *)
(* storage) is an input of the action.                                     *)
(***************************************************************************)
EXTENDS Integers, Sequences, FiniteSets, TLC

\* ---------------------------------------------------------------- bounds
NumReqs == 2            \* requests the server receives
MaxImgs == 2            \* <img> elements in the generated markup
MaxRooms == 1           \* rows of quote_rooms
MaxLabels == 2          \* host pieces of an Origin header
MaxEntries == 2         \* entries of CORS_ORIGIN
MaxItems == 1           \* rows of quote_line_items
MaxFileIds == 2         \* values of the first 8 hex digits of a uuid
TickMs == 30000         \* granularity of the clock (ms)
MaxElapsed == 240000    \* the clock stops advancing here (ms)

Reqs == 1..NumReqs

\* ------------------------------------------------------ program constants
Impls == {"index", "part_001", "part_003", "part_004"}

\* the snapshots that write the markup and the PDF to temp files and name
\* the upload after Date.now()
TempFiles == {"index", "part_001"}

REQUEST_TIMEOUT == 180000
IMAGE_PROCESSING_TIMEOUT == 60000
LAUNCH_TIMEOUT == 60000
SET_CONTENT_TIMEOUT == 30000
READY_STATE_TIMEOUT == 30000
PDF_RACE_TIMEOUT == 60000

\* documented number of automatic retries of a failed generation
MAX_GENERATION_RETRIES == 2

NoTimeout == 0
NoColor == ""
DefaultAccent == "#3b82f6"
OptionColors == {NoColor, "#ff0000"}
ProfileColors == {NoColor, "#00ff00"}

NULL == "null"

\* a nullable value is a set of at most one element
Null == {}
Some(v) == {v}
Val(x) == CHOOSE v \in x : TRUE

VARIABLES
  impl,       \* the snapshot that is deployed
  timed,      \* TRUE when the clock is modelled explicitly
  clients,    \* the requests that arrive
  pc,         \* per request: the awaited call the handler is suspended on
  body,       \* per request: req.body
  fetch,      \* per request: the locals of fetchQuoteData while it runs
  quoteData,  \* per request: the value returned by fetchQuoteData, or NULL
  html,       \* per request: the generated markup, or NULL
  browser,    \* per request: the handler's local `browser` (0 is null)
  page,       \* per request: the browser instance the local `page` lives in
  browsers,   \* every browser instance ever launched: owner and open flag
  imgs,       \* per request: images of the page and how many have settled
  pdfBuffer,  \* per request: length class of the buffer page.pdf returned
  resp,       \* per request: the HTTP responses sent, in order
  log,        \* per request: the calls issued and responses sent, in order
  store,      \* the uploads accepted by the storage bucket
  elapsed,    \* per request: Date.now() - startTime
  phaseT,     \* per request: time spent in the current awaited call
  outcomes,   \* per request: how each awaited call settled (history)
  fileName,   \* per request: the tag that makes the storage key (0: not yet)
  lastStamp,  \* the latest Date.now() value that went into a file name
  startStamp, \* per request: lastStamp when the request arrived (startTime)
  pdfOptions, \* per request: the options page.pdf was called with, or NULL
  allowedOrigins, \* the entries of CORS_ORIGIN
  gate        \* per request: its Origin and Authorization headers and how far
              \* it has come through the middleware in front of the handler

vars == <<impl, timed, clients, pc, body, fetch, quoteData, html, browser, page,
          browsers, imgs, pdfBuffer, resp, log, store, elapsed, phaseT,
          outcomes, fileName, lastStamp, startStamp, pdfOptions,
          allowedOrigins, gate>>

\* the variables of the middleware
front == <<allowedOrigins, gate>>

\* the variables behind the storage key
naming == <<fileName, lastStamp, startStamp>>

\* ---------------------------------------------------------------- helpers
Count(s, e) == Cardinality({i \in 1..Len(s) : s[i] = e})

Has(s, e) == \E i \in 1..Len(s) : s[i] = e

Before(s, a, b) ==
  \A j \in 1..Len(s) : s[j] = b => \E i \in 1..(j - 1) : s[i] = a

\* data || fallback
OrElse(data, fallback) == IF data = Null THEN fallback ELSE Val(data)

\* ------------------------------------------------- results of awaited calls
DbError == "db error"

\* values of the free-text column quotes.customer_name, as sequences of
\* characters: plain text, text with markup, text with the other special
\* characters and a run of spaces
Texts ==
  { <<"a">>,
    <<"<", "b", ">">>,
    <<"&", " ", " ", "\"", "'">> }

\* quotes.terms: empty or some text
NoTerms == ""

TermsTexts == {NoTerms, "terms"}

Quotes == [reference : {"quote"}, customer_name : Texts, terms : TermsTexts]

QuoteResults ==
  { [data |-> Some(q), error |-> NULL] : q \in Quotes } \cup
  {
    [data |-> Null, error |-> DbError],
    [data |-> Null, error |-> NULL] }

\* a JavaScript number: a finite value (money in pence, quantities in
\* units), NaN or Infinity
Num(n) == [k |-> "num", v |-> n]

NaN == [k |-> "NaN", v |-> 0]

Infinity == [k |-> "Infinity", v |-> 0]

\* the spec's example row: quantity 3 at 12.50 makes 37.50
PlainItem == [quantity |-> Num(3), unit_price |-> Num(1250), subtotal |-> Num(3750)]

\* rows of quote_line_items: the example row, a row with quantity 0, and rows
\* with a malformed number in each column
Items ==
  { PlainItem,
    [quantity |-> Num(0), unit_price |-> Num(1250), subtotal |-> Num(0)],
    [quantity |-> NaN, unit_price |-> Num(1250), subtotal |-> Num(3750)],
    [quantity |-> Num(3), unit_price |-> NaN, subtotal |-> Num(3750)],
    [quantity |-> Num(3), unit_price |-> Num(1250), subtotal |-> Infinity] }

\* the arrays of at most MaxItems rows
ItemLists == UNION {[1..n -> Items] : n \in 0..MaxItems}

\* the rows of quote_line_items for the quote: an array of rows (maybe empty)
LineItemResults ==
  { [data |-> Some(l), error |-> NULL] : l \in ItemLists }
    \cup { [data |-> Null, error |-> DbError] }

\* company_profiles.logo_url: empty or a URL
NoLogo == ""

LogoUrls == {NoLogo, "logo.png"}

Profiles == [quote_accent_color : ProfileColors, logo_url : LogoUrls]

ProfileResults ==
  { [data |-> Some(p), error |-> NULL] : p \in Profiles }
    \cup { [data |-> Null, error |-> DbError] }

RoomResults ==
  { [data |-> Some(n), error |-> NULL] : n \in 0..MaxRooms }
    \cup { [data |-> Null, error |-> DbError] }

UploadResults ==
  { [data |-> Some("path"), error |-> NULL],
    [data |-> Null, error |-> "storage error"] }

\* options.pageSize: absent, or one of the spellings a client may send
NoPageSize == ""

PageSizes == {NoPageSize, "a4", "A4", "letter", "Letter"}

\* the per-section inclusion flags of the options bag
Flags == {"includeTitle", "includeLogo", "includeTerms", "includePricing", "includeRooms"}

FlagValues == {"absent", "true", "false"}

NoFlags == [f \in Flags |-> "absent"]

\* req.body: quoteId present or not, the options bag present or not, and the
\* keys of the bag (every key is absent when the bag is)
Bodies ==
  { b \in [quoteId : BOOLEAN, hasOptions : BOOLEAN, accentColor : OptionColors,
           pageSize : PageSizes, flags : [Flags -> FlagValues]] :
      ~b.hasOptions =>
        b.accentColor = NoColor /\ b.pageSize = NoPageSize /\ b.flags = NoFlags }

EmptyProfile == [quote_accent_color |-> NoColor, logo_url |-> NoLogo]

NoFetch == [quote |-> Null, lineItems |-> Null, companyProfile |-> Null]

\* ------------------------------------------------------------ fetchQuoteData
\* mutant: the `!quote` test is missing
QuoteFatalErrorOnly(res) == res.error # NULL

\* if (quoteError || !quote) throw
QuoteFatal(res) == res.error # NULL \/ res.data = Null

\* mutant: a line-items error is only logged
LineItemsFatalNever(res) == FALSE

\* if (lineItemsError) throw
LineItemsFatal(res) == res.error # NULL

\* mutant: a company-profile error is thrown like a line-items error
ProfileFatalOnError(res) == res.error # NULL

\* if (profileError) { console.error(...) }  -- not critical
ProfileFatal(res) == FALSE

\* if (roomsError) { console.error(...) }  -- not critical
RoomsFatal(res) == FALSE

\* return { quote, lineItems: lineItems || [], companyProfile: companyProfile || {},
\*          rooms: quoteRooms || [] }
FetchResult(f, quoteRooms) ==
  [ quote |-> Val(f.quote),
    lineItems |-> OrElse(f.lineItems, <<>>),
    companyProfile |-> OrElse(f.companyProfile, EmptyProfile),
    rooms |-> OrElse(quoteRooms, 0) ]

\* -------------------------------------------------------------- sanitizeData
Whitespace == {" ", "\t", "\n"}

\* data.replace(/\s{2,}/g, ' '): a run of two or more whitespace characters
\* becomes one space
RECURSIVE CollapseSpaces(_)
CollapseSpaces(s) ==
  IF s = <<>> THEN <<>>
  ELSE IF Head(s) \in Whitespace /\ Len(s) > 1 /\ s[2] \in Whitespace
  THEN LET run == CHOOSE n \in 2..Len(s) :
                    /\ \A k \in 1..n : s[k] \in Whitespace
                    /\ n < Len(s) => s[n + 1] \notin Whitespace
       IN <<" ">> \o CollapseSpaces(SubSeq(s, run + 1, Len(s)))
  ELSE <<Head(s)>> \o CollapseSpaces(Tail(s))

\* s.replace(/c/g, entity)
RECURSIVE ReplaceAll(_, _, _)
ReplaceAll(s, c, entity) ==
  IF s = <<>> THEN <<>>
  ELSE (IF Head(s) = c THEN entity ELSE <<Head(s)>>) \o ReplaceAll(Tail(s), c, entity)

AMP == <<"&", "a", "m", "p", ";">>
LT == <<"&", "l", "t", ";">>
GT == <<"&", "g", "t", ";">>
QUOT == <<"&", "q", "u", "o", "t", ";">>
APOS == <<"&", "#", "0", "3", "9", ";">>

\* the string branch of sanitizeData: the replacements in the code's order
SanitizeString(s) ==
  ReplaceAll(
    ReplaceAll(
      ReplaceAll(
        ReplaceAll(
          ReplaceAll(CollapseSpaces(s), "&", AMP),
          "<", LT),
        ">", GT),
      "\"", QUOT),
    "'", APOS)

\* the number branch of sanitizeData:
\*   if (typeof data === 'number' && (isNaN(data) || !isFinite(data))) return 0
SanitizeNumber(x) == IF x.k \in {"NaN", "Infinity"} THEN Num(0) ELSE x

\* sanitizeData on a row of quote_line_items
SanitizeItem(it) ==
  [quantity |-> SanitizeNumber(it.quantity),
   unit_price |-> SanitizeNumber(it.unit_price),
   subtotal |-> SanitizeNumber(it.subtotal)]

\* sanitizeData on the strings the data store can return
SanitizedTexts == [t \in Texts |-> SanitizeString(t)]

\* what fetchQuoteData returns: part_004 passes every part through
\* sanitizeData, which reaches the strings inside objects; the other
\* snapshots return the rows as they came
SanitizeData(i, data) ==
  IF i = "part_004"
  THEN [data EXCEPT !.quote.customer_name = SanitizedTexts[@],
                    !.lineItems = [n \in 1..Len(@) |-> SanitizeItem(@[n])]]
  ELSE data

\* --------------------------------------------------------- generateQuoteHtml
\* options.accentColor || companyProfile?.quote_accent_color || '#3b82f6'
AccentColor(optColor, profile) ==
  IF optColor # NoColor THEN optColor
  ELSE IF profile.quote_accent_color # NoColor THEN profile.quote_accent_color
  ELSE DefaultAccent

\* x || d for a number x: 0 and NaN are falsy
OrNum(x, d) == IF x.k = "NaN" \/ (x.k = "num" /\ x.v = 0) THEN Num(d) ELSE x

\* `${x}`: the number as it is
Interpolate(x) == [style |-> "plain", k |-> x.k, v |-> x.v]

\* new Intl.NumberFormat('en-GB', { style: 'currency', currency: 'GBP' }).format:
\* pounds and two digits of pence; NaN and Infinity are printed as such
FormatCurrency(x) ==
  [style |-> "GBP", k |-> x.k, pounds |-> x.v \div 100, pence |-> x.v % 100]

\* one row of the line items table: index.js prints the columns as they are,
\* part_003 with || fallbacks, part_004 without currency formatting
ItemRow(i, it) ==
  CASE i = "part_003" ->
         [quantity |-> Interpolate(OrNum(it.quantity, 1)),
          unit_price |-> FormatCurrency(OrNum(OrNum(it.unit_price, 0), 0)),
          subtotal |-> FormatCurrency(OrNum(OrNum(it.subtotal, 0), 0))]
    [] i = "part_004" ->
         [quantity |-> Interpolate(OrNum(it.quantity, 0)),
          unit_price |-> Interpolate(OrNum(it.unit_price, 0)),
          subtotal |-> Interpolate(OrNum(it.subtotal, 0))]
    [] OTHER ->
         [quantity |-> Interpolate(it.quantity),
          unit_price |-> FormatCurrency(it.unit_price),
          subtotal |-> FormatCurrency(it.subtotal)]

\* @page { size: ... } of the markup; the inline template of part_004 has no
\* @page rule
CssPageSize(i, options) ==
  CASE i = "part_004" -> NoPageSize
    [] i = "part_003" ->
         (IF options.pageSize \in {NoPageSize, "a4"} THEN "A4" ELSE "letter")
    [] OTHER -> (IF options.pageSize = "a4" THEN "A4" ELSE "letter")

\* the sections of the document that the markup contains
Sections(i, qd, options) ==
  IF i = "part_004" THEN {"pricing"}
  ELSE {"title", "pricing"}
       \cup (IF qd.companyProfile.logo_url # NoLogo THEN {"logo"} ELSE {})
       \cup (IF qd.quote.terms # NoTerms THEN {"terms"} ELSE {})
       \cup (IF /\ (i = "part_003" \/ options.flags["includeRooms"] = "true")
                 /\ qd.rooms > 0
              THEN {"rooms"} ELSE {})

\* options.accentColor on an undefined options: part_001 passes req.body's
\* options as they came, index.js passes options || {}, part_003 reads
\* options?.accentColor, part_004 defaults options to {}
HtmlThrows(i, b) == i = "part_001" /\ ~b.hasOptions

\* the markup: index.js and part_003 use the design settings, the inline
\* template of part_004 uses none of them
GenerateQuoteHtml(i, qd, options) ==
  [reference |-> qd.quote.reference,
   customerName |-> qd.quote.customer_name,
   rows |-> [n \in 1..Len(qd.lineItems) |-> ItemRow(i, qd.lineItems[n])],
   sections |-> Sections(i, qd, options),
   pageSize |-> CssPageSize(i, options),
   accentColor |-> IF i = "part_004" THEN NoColor
                   ELSE AccentColor(options.accentColor, qd.companyProfile)]

\* the options of page.pdf: index.js passes the requested size as it came
\* and lets the @page rule of the markup win, part_003 and part_004 map it
PdfOptions(i, options) ==
  IF i \in {"part_003", "part_004"}
  THEN [format |-> IF options.pageSize = "letter" THEN "Letter" ELSE "A4",
        preferCSSPageSize |-> FALSE]
  ELSE [format |-> IF options.pageSize # NoPageSize THEN options.pageSize ELSE "A4",
        preferCSSPageSize |-> TRUE]

\* ------------------------------------------------------------------ timeouts
\* the deadline the code puts on an awaited call, NoTimeout when it puts none
OpTimeout(i, op) ==
  CASE i = "index" /\ op = "launch" -> LAUNCH_TIMEOUT
    [] i = "index" /\ op = "setContent" -> SET_CONTENT_TIMEOUT
    [] i = "index" /\ op = "ready" -> READY_STATE_TIMEOUT
    [] i = "index" /\ op = "pdf" -> PDF_RACE_TIMEOUT
    [] i = "part_003" /\ op = "setContent" -> IMAGE_PROCESSING_TIMEOUT
    [] i = "part_004" /\ op = "setContent" -> IMAGE_PROCESSING_TIMEOUT
    [] OTHER -> NoTimeout

Outcomes(i, op) ==
  IF OpTimeout(i, op) # NoTimeout THEN {"ok", "error", "timeout"} ELSE {"ok", "error"}

\* a timer fires only once its delay has passed
OutcomeDue(r, op, out) ==
  out = "timeout" => (timed => phaseT[r] >= OpTimeout(impl, op))

\* -------------------------------------------------------------------- errors
\* the wrapping try/catch blocks of index.js:
\*   throw new Error(`Failed to set page content: ${contentError.message}`)
ErrorPrefix(i, op) ==
  CASE op = "quotes" -> "Failed to fetch quote"
    [] op = "items" -> "Failed to fetch line items"
    [] op = "upload" -> "Failed to upload PDF"
    [] i = "index" /\ op \in {"setContent", "imageWait", "ready"} ->
         "Failed to set page content"
    [] i = "index" /\ op = "pdf" -> "Failed to generate PDF"
    [] i = "index" /\ op = "writePdf" -> "Failed to write PDF file"
    [] OTHER -> ""

MkError(i, op, cause) == [prefix |-> ErrorPrefix(i, op), op |-> op, cause |-> cause]

\* mutant: res.json(...) without res.status(500)
ErrorResponseNoStatus(i, e) == [status |-> 200, message |-> e]

\* res.status(500).json({ error: ..., message: error.message })
ErrorResponse(i, e) == [status |-> 500, message |-> e]

\* res.status(400).json({ error: 'Missing quoteId parameter' }); part_003
\* words it 'Quote ID is required'
BadRequest(i) ==
  [status |-> 400,
   message |-> [prefix |-> IF i = "part_003" THEN "Quote ID is required"
                           ELSE "Missing quoteId parameter",
                op |-> "none", cause |-> "none"]]

\* Math.random(), in thousandths: the ends of [0, 1)
RandomSamples == {0, 999}

\* Math.floor(Math.random() * 2000) + 1000
MockProcessingTime(u) == (u * 2000) \div 1000 + 1000

\* the processingTime the handler may put in the success response when
\* Date.now() - startTime is t: part_004 reports a mock value
ProcessingTimes(i, t) ==
  IF i = "part_004" THEN {MockProcessingTime(u) : u \in RandomSamples} ELSE {t}

\* res.json({ success: true, documentUrl, fileName, processingTime });
\* the public URL is the bucket's base URL followed by the key
Success(name, pt) ==
  [status |-> 200,
   message |-> [prefix |-> "", op |-> "none", cause |-> "none"],
   documentUrl |-> name,
   fileName |-> name,
   processingTime |-> pt]

\* uuidv4().substring(0, 8) in part_003: 32 random bits, which two calls may
\* share
FileIds(i) == IF i = "part_003" THEN 1..MaxFileIds ELSE {0}

\* uuidv4() in part_004: 122 random bits, taken to differ between any two
\* calls; a request makes one call
UuidV4(r) == r

\* Date.now() when request r builds its file name (index.js), as a position
\* in the order of the milliseconds that went into file names: the clock
\* does not run backwards, more than a millisecond separates the arrival of
\* a request from the end of its rendering, and a request that renders at
\* the same time as another may read the same millisecond
DateNow(i, r) ==
  IF i \notin TempFiles THEN {0}
  ELSE IF lastStamp > startStamp[r] THEN {lastStamp, lastStamp + 1}
  ELSE {lastStamp + 1}

\* mutant: no snapshot has a finally block
AfterResponseNoFinally(i, b) == "done"

\* where the handler goes after it has sent a response: the finally block of
\* index.js and part_003 closes the browser if there is one; part_004 has no
\* finally block
AfterResponse(i, b) == IF i # "part_004" /\ b # 0 THEN "close" ELSE "done"

\* --------------------------------------------------------------------- state
NoBody ==
  [quoteId |-> FALSE, hasOptions |-> FALSE, accentColor |-> NoColor,
   pageSize |-> NoPageSize, flags |-> NoFlags]

NoImgs == [total |-> 0, loaded |-> 0, resolved |-> 0]

\* ------------------------------------------------------------- middleware
\* Strings are sequences of pieces: a scheme, then pieces of the host name.
\* <<Https, "a", "b">> reads https://ab, so that https://a is a substring of
\* https://ab and a is a substring of http://ba.
Https == "https://"
Http == "http://"
Star == <<"*">>
Labels == {"a", "b"}

\* the Origin headers: a scheme and a host of up to MaxLabels pieces
Origins ==
  { <<s>> \o h : s \in {Https, Http},
                 h \in UNION {[1..n -> Labels] : n \in 1..MaxLabels} }

\* no Origin header (curl, same-origin requests)
NoOrigin == <<>>

\* CORS_ORIGIN.split(','): up to MaxEntries entries, each an https origin
\* or '*'
AllowedLists ==
  { l \in SUBSET ({o \in Origins : o[1] = Https} \cup {Star}) :
      Cardinality(l) \in 1..MaxEntries }

\* the list the handler specifications run with
DefaultOrigins == {<<Https, "a">>}

\* String.prototype.includes
Includes(s, t) ==
  \E i \in 0..(Len(s) - Len(t)) : SubSeq(s, i + 1, i + Len(t)) = t

\* s.replace('https://', ''): the first occurrence is removed
StripScheme(s) ==
  IF \E i \in 1..Len(s) : s[i] = Https
  THEN LET i == CHOOSE j \in 1..Len(s) :
                  s[j] = Https /\ \A k \in 1..(j - 1) : s[k] # Https
       IN SubSeq(s, 1, i - 1) \o SubSeq(s, i + 1, Len(s))
  ELSE s

\* allowedOrigins.some(...) of corsOptions.origin: index.js compares the
\* strings as they are, part_003 and part_004 without their 'https://'
IsRelatedOrigin(i, list, origin) ==
  \E allowed \in list :
    IF i = "index"
    THEN Includes(origin, allowed) \/ Includes(allowed, origin)
    ELSE \/ Includes(origin, StripScheme(allowed))
         \/ Includes(allowed, StripScheme(origin))

\* corsOptions.origin calls back with true; part_001 registers no CORS
\* middleware, every request reaches its routes
IsOriginAllowed(i, list, origin) ==
  \/ i = "part_001"
  \/ origin = NoOrigin
  \/ origin \in list
  \/ Star \in list
  \/ IsRelatedOrigin(i, list, origin)

\* req.headers.authorization: absent, another scheme, 'Bearer <token>'
Authorizations == {"none", "Basic", "Bearer"}

\* !authHeader || !authHeader.startsWith('Bearer ')
NoBearer(h) == h # "Bearer"

\* supabase.auth.getUser(token): a user, no user, an error, or the promise
\* rejects
GetUserResults == {"user", "no user", "error", "rejects"}

\* mutant: the result of getUser is not looked at
TokenRejectedNever(res) == FALSE

\* if (error || !data.user)
TokenRejected(res) == res \in {"no user", "error"}

\* res.status(401).json({ error: 'Unauthorized - ...' })
Unauthorized(why) ==
  [status |-> 401,
   message |-> [prefix |-> "Unauthorized - " \o why, op |-> "verifyToken", cause |-> "none"]]

\* res.status(500).json({ error: 'Internal server error during authentication' })
AuthError ==
  [status |-> 500,
   message |-> [prefix |-> "Internal server error during authentication",
                op |-> "verifyToken", cause |-> "error"]]

\* a request in front of the middleware
Arriving(origin, h) ==
  [origin |-> origin, authorization |-> h, at |-> "cors", user |-> "unset", nexts |-> 0]

\* a request that verifyToken has passed on to the handler
Admitted == [Arriving(NoOrigin, "Bearer") EXCEPT !.at = "next", !.user = "user", !.nexts = 1]

\* the handler specifications start behind the middleware
Passed ==
  /\ allowedOrigins = DefaultOrigins
  /\ gate = [r \in Reqs |-> Admitted]

\* the server has started: nothing launched, stored or answered
Fresh(t, cs) ==
  /\ impl \in Impls
  /\ timed = t
  /\ clients = cs
  /\ quoteData = [r \in Reqs |-> Null]
  /\ html = [r \in Reqs |-> Null]
  /\ browser = [r \in Reqs |-> 0]
  /\ page = [r \in Reqs |-> 0]
  /\ browsers = <<>>
  /\ imgs = [r \in Reqs |-> NoImgs]
  /\ pdfBuffer = [r \in Reqs |-> NULL]
  /\ resp = [r \in Reqs |-> <<>>]
  /\ log = [r \in Reqs |-> <<>>]
  /\ store = {}
  /\ elapsed = [r \in Reqs |-> 0]
  /\ phaseT = [r \in Reqs |-> 0]
  /\ outcomes = [r \in Reqs |-> {}]
  /\ fileName = [r \in Reqs |-> 0]
  /\ lastStamp = 0
  /\ startStamp = [r \in Reqs |-> 0]
  /\ pdfOptions = [r \in Reqs |-> Null]

\* no request has arrived
Idle ==
  /\ pc = [r \in Reqs |-> "idle"]
  /\ body = [r \in Reqs |-> NoBody]
  /\ fetch = [r \in Reqs |-> NoFetch]

InitWith(t, cs) == Idle /\ Passed /\ Fresh(t, cs)

\* one request, time abstracted
Init == InitWith(FALSE, {1})

\* concurrent requests, time abstracted
InitConc == InitWith(FALSE, Reqs)

\* one request, with the clock
InitTimed == InitWith(TRUE, {1})

\* ----------------------------------------------------------- handler pieces
Goto(r, p) ==
  /\ pc' = [pc EXCEPT ![r] = p]
  /\ phaseT' = [phaseT EXCEPT ![r] = 0]

\* the handler sends `response` after the log lines `lg`, then runs what
\* follows the response (the finally block, where there is one)
Respond(r, response, lg) ==
  LET next == AfterResponse(impl, browser[r]) IN
  /\ resp' = [resp EXCEPT ![r] = Append(@, response)]
  /\ log' = [log EXCEPT ![r] =
               lg \o <<"respond">> \o (IF next = "close" THEN <<"close">> ELSE <<>>)]
  /\ Goto(r, next)

\* mutant: the catch block starts the pipeline again instead of answering
ThrowRetry(r, e, lg) ==
  /\ log' = [log EXCEPT ![r] = lg \o <<"quotes">>]
  /\ Goto(r, "quotes")
  /\ UNCHANGED resp

\* an exception reaches the catch block of the handler
Throw(r, e, lg) == Respond(r, ErrorResponse(impl, e), lg)

\* the awaited call `op` has settled with outcome `out`
Settled(r, op, out) == outcomes' = [outcomes EXCEPT ![r] = @ \cup {<<op, out>>}]

\* how a data store or storage call settled
ResultKind(res) ==
  IF res.error # NULL THEN "error" ELSE IF res.data = Null THEN "norow" ELSE "ok"

\* the call `op` is issued and the handler is suspended on it
Call(r, op) ==
  /\ log' = [log EXCEPT ![r] = Append(@, op)]
  /\ Goto(r, op)

\* ----------------------------------------------------------------- actions
\* mutant: the browser is launched as soon as the request arrives
FirstCallLaunch(i) == "launch"

\* the first awaited call of the handler: fetchQuoteData's quote lookup
FirstCall(i) == "quotes"

\* mutant: the quoteId is not validated
MissingQuoteIdNever(b) == FALSE

\* if (!quoteId)
MissingQuoteId(b) == ~b.quoteId

\* the request arrives: const { quoteId, options } = req.body; if (!quoteId) ...
Receive(r, b, fileId) ==
  /\ r \in clients
  /\ gate[r].at = "next"
  /\ pc[r] = "idle"
  /\ fileId \in FileIds(impl)
  /\ body' = [body EXCEPT ![r] = b]
  /\ startStamp' = [startStamp EXCEPT ![r] = lastStamp]
  /\ fileName' = [fileName EXCEPT ![r] = IF b.quoteId THEN fileId ELSE @]
  /\ UNCHANGED lastStamp
  /\ IF MissingQuoteId(b)
     THEN Respond(r, BadRequest(impl), log[r])
     ELSE /\ Call(r, FirstCall(impl))
          /\ UNCHANGED resp
  /\ UNCHANGED <<front, impl, timed, clients, fetch, quoteData, html, browser, page,
                 browsers, imgs, pdfBuffer, store, elapsed, pdfOptions, outcomes>>

\* supabase.from('quotes')...single() settles
QuotesSettle(r, res) ==
  /\ pc[r] = "quotes"
  /\ Settled(r, "quotes", ResultKind(res))
  /\ IF QuoteFatal(res)
     THEN /\ Throw(r, MkError(impl, "quotes",
                              IF res.error # NULL THEN res.error ELSE "Not found"),
                   log[r])
          /\ UNCHANGED fetch
     ELSE /\ fetch' = [fetch EXCEPT ![r].quote = res.data]
          /\ Call(r, "items")
          /\ UNCHANGED resp
  /\ UNCHANGED <<front, impl, timed, clients, body, quoteData, html, browser, page,
                 browsers, imgs, pdfBuffer, store, elapsed, pdfOptions, naming>>

\* supabase.from('quote_line_items')... settles
ItemsSettle(r, res) ==
  /\ pc[r] = "items"
  /\ Settled(r, "items", ResultKind(res))
  /\ IF LineItemsFatal(res)
     THEN /\ Throw(r, MkError(impl, "items", res.error), log[r])
          /\ UNCHANGED fetch
     ELSE /\ fetch' = [fetch EXCEPT ![r].lineItems = res.data]
          /\ Call(r, "profile")
          /\ UNCHANGED resp
  /\ UNCHANGED <<front, impl, timed, clients, body, quoteData, html, browser, page,
                 browsers, imgs, pdfBuffer, store, elapsed, pdfOptions, naming>>

\* supabase.from('company_profile')... settles
ProfileSettle(r, res) ==
  /\ pc[r] = "profile"
  /\ Settled(r, "profile", ResultKind(res))
  /\ IF ProfileFatal(res)
     THEN /\ Throw(r, MkError(impl, "profile", res.error), log[r])
          /\ UNCHANGED fetch
     ELSE /\ fetch' = [fetch EXCEPT ![r].companyProfile = res.data]
          /\ log' = [log EXCEPT ![r] =
                       @ \o (IF res.error # NULL
                             THEN <<"console.error: company profile">> ELSE <<>>)
                         \o <<"rooms">>]
          /\ Goto(r, "rooms")
          /\ UNCHANGED resp
  /\ UNCHANGED <<front, impl, timed, clients, body, quoteData, html, browser, page,
                 browsers, imgs, pdfBuffer, store, elapsed, pdfOptions, naming>>

\* supabase.from('quote_rooms')... settles; fetchQuoteData returns; the markup
\* is generated (index.js also writes it to a temp file); puppeteer.launch
RoomsSettle(r, res, fsOk) ==
  /\ pc[r] = "rooms"
  /\ Settled(r, "rooms", ResultKind(res))
  /\ (impl \notin TempFiles \/ HtmlThrows(impl, body[r])) => fsOk
  /\ IF RoomsFatal(res)
     THEN /\ Throw(r, MkError(impl, "rooms", res.error), log[r])
          /\ UNCHANGED <<fetch, quoteData, html>>
     ELSE LET qd == SanitizeData(impl, FetchResult(fetch[r], res.data))
              lg == log[r] \o (IF res.error # NULL
                               THEN <<"console.error: rooms">> ELSE <<>>)
                           \o <<"html">>
          IN /\ fetch' = [fetch EXCEPT ![r] = NoFetch]
             /\ quoteData' = [quoteData EXCEPT ![r] = Some(qd)]
             /\ html' = [html EXCEPT ![r] =
                           IF HtmlThrows(impl, body[r]) THEN @
                           ELSE Some(GenerateQuoteHtml(impl, qd, body[r]))]
             /\ IF HtmlThrows(impl, body[r])
                THEN Throw(r, MkError(impl, "html", "TypeError"), lg)
                ELSE IF fsOk
                THEN /\ log' = [log EXCEPT ![r] = lg \o <<"launch">>]
                     /\ Goto(r, "launch")
                     /\ UNCHANGED resp
                ELSE Throw(r, MkError(impl, "writeHtml", "error"), lg)
  /\ UNCHANGED <<front, impl, timed, clients, body, browser, page, browsers, imgs,
                 pdfBuffer, store, elapsed, pdfOptions, naming>>

\* puppeteer.launch settles
LaunchSettle(r, out) ==
  /\ pc[r] = "launch"
  /\ Settled(r, "launch", out)
  /\ out \in Outcomes(impl, "launch")
  /\ OutcomeDue(r, "launch", out)
  /\ IF out = "ok"
     THEN /\ browsers' = Append(browsers, [owner |-> r, open |-> TRUE])
          /\ browser' = [browser EXCEPT ![r] = Len(browsers) + 1]
          /\ Call(r, "newPage")
          /\ UNCHANGED resp
     ELSE /\ Throw(r, MkError(impl, "launch", out), log[r])
          /\ UNCHANGED <<browsers, browser>>
  /\ UNCHANGED <<front, impl, timed, clients, body, fetch, quoteData, html, page, imgs,
                 pdfBuffer, store, elapsed, pdfOptions, naming>>

\* browser.newPage (and the page configuration calls after it) settles
NewPageSettle(r, out) ==
  /\ pc[r] = "newPage"
  /\ Settled(r, "newPage", out)
  /\ out \in Outcomes(impl, "newPage")
  /\ IF out = "ok"
     THEN /\ page' = [page EXCEPT ![r] = browser[r]]
          /\ Call(r, "setContent")
          /\ UNCHANGED resp
     ELSE /\ Throw(r, MkError(impl, "newPage", out), log[r])
          /\ UNCHANGED page
  /\ UNCHANGED <<front, impl, timed, clients, body, fetch, quoteData, html, browser,
                 browsers, imgs, pdfBuffer, store, elapsed, pdfOptions, naming>>

\* the promise callback of the image wait: `complete` images count at once
\*   if (imgs.length === 0) return resolve();  ...  if (img.complete) imageLoaded()
StartImageWait(n, c) ==
  [total |-> n, loaded |-> c, resolved |-> IF n = 0 \/ c = n THEN 1 ELSE 0]

\* page.setContent settles; index.js then starts the image wait, the other
\* snapshots go straight to page.pdf
SetContentSettle(r, out, n, c) ==
  /\ pc[r] = "setContent"
  /\ Settled(r, "setContent", out)
  /\ out \in Outcomes(impl, "setContent")
  /\ OutcomeDue(r, "setContent", out)
  /\ (impl # "index" \/ out # "ok") => (n = 0 /\ c = 0)
  /\ pdfOptions' = IF out = "ok" /\ impl # "index"
                   THEN [pdfOptions EXCEPT ![r] = Some(PdfOptions(impl, body[r]))]
                   ELSE pdfOptions
  /\ IF out = "ok"
     THEN /\ IF impl = "index"
             THEN /\ imgs' = [imgs EXCEPT ![r] = StartImageWait(n, c)]
                  /\ Call(r, "imageWait")
             ELSE /\ Call(r, "pdf")
                  /\ UNCHANGED imgs
          /\ UNCHANGED resp
     ELSE /\ Throw(r, MkError(impl, "setContent", out), log[r])
          /\ UNCHANGED imgs
  /\ UNCHANGED <<front, impl, timed, clients, body, fetch, quoteData, html, browser,
                 page, browsers, pdfBuffer, store, elapsed, naming>>

\* one image fires load or error: imageLoaded()
ImageLoaded(im) ==
  [im EXCEPT !.loaded = @ + 1,
             !.resolved = IF im.loaded + 1 = im.total THEN @ + 1 ELSE @]

ImgEvent(r) ==
  /\ pc[r] = "imageWait"
  /\ imgs[r].loaded < imgs[r].total
  /\ imgs' = [imgs EXCEPT ![r] = ImageLoaded(@)]
  /\ UNCHANGED <<front, impl, timed, clients, pc, body, fetch, quoteData, html,
                 browser, page, browsers, pdfBuffer, resp, log, store,
                 elapsed, pdfOptions, naming, phaseT, outcomes>>

\* the page.evaluate of the image wait settles: it resolves once the promise
\* in the page has been resolved, it rejects when the page fails
ImageWaitSettle(r, out) ==
  /\ pc[r] = "imageWait"
  /\ Settled(r, "imageWait", out)
  /\ out \in Outcomes(impl, "imageWait")
  /\ IF out = "ok"
     THEN /\ imgs[r].resolved > 0
          /\ Call(r, "ready")
          /\ UNCHANGED resp
     ELSE Throw(r, MkError(impl, "imageWait", out), log[r])
  /\ UNCHANGED <<front, impl, timed, clients, body, fetch, quoteData, html, browser,
                 page, browsers, imgs, pdfBuffer, store, elapsed, pdfOptions, naming>>

\* page.waitForFunction(() => document.readyState === 'complete') settles
ReadySettle(r, out) ==
  /\ pc[r] = "ready"
  /\ Settled(r, "ready", out)
  /\ out \in Outcomes(impl, "ready")
  /\ OutcomeDue(r, "ready", out)
  /\ pdfOptions' = IF out = "ok"
                   THEN [pdfOptions EXCEPT ![r] = Some(PdfOptions(impl, body[r]))]
                   ELSE pdfOptions
  /\ IF out = "ok"
     THEN /\ Call(r, "pdf")
          /\ UNCHANGED resp
     ELSE Throw(r, MkError(impl, "ready", out), log[r])
  /\ UNCHANGED <<front, impl, timed, clients, body, fetch, quoteData, html, browser,
                 page, browsers, imgs, pdfBuffer, store, elapsed, naming>>

Buffers == {"empty", "bytes"}

\* if (!pdfBuffer || !pdfBuffer.length) throw ...: only index.js checks
EmptyBufferRejected(i, buf) == i = "index" /\ buf # "bytes"

\* page.pdf settles (in index.js: the race of page.pdf and the 60 s timer);
\* index.js then checks the buffer, writes it to a temp file and uploads it,
\* part_003 uploads it, part_004 closes the browser first
PdfSettle(r, out, buf, fsOk, now) ==
  /\ pc[r] = "pdf"
  /\ now \in DateNow(impl, r)
  /\ IF impl \in TempFiles /\ out = "ok" /\ ~EmptyBufferRejected(impl, buf)
     THEN /\ fileName' = [fileName EXCEPT ![r] = now]
          /\ lastStamp' = now
     ELSE UNCHANGED <<fileName, lastStamp>>
  /\ UNCHANGED startStamp
  /\ Settled(r, "pdf", IF out = "ok" THEN buf ELSE out)
  /\ out \in Outcomes(impl, "pdf")
  /\ OutcomeDue(r, "pdf", out)
  /\ out # "ok" => buf = "bytes"
  /\ (impl \notin TempFiles \/ out # "ok" \/ EmptyBufferRejected(impl, buf)) => fsOk
  /\ IF out = "ok"
     THEN /\ pdfBuffer' = [pdfBuffer EXCEPT ![r] = buf]
          /\ IF EmptyBufferRejected(impl, buf)
             THEN Throw(r, MkError(impl, "pdf", "empty buffer"), log[r])
             ELSE IF ~fsOk
             THEN Throw(r, MkError(impl, "writePdf", "error"), log[r])
             ELSE /\ Call(r, IF impl = "part_004" THEN "close" ELSE "upload")
                  /\ UNCHANGED resp
     ELSE /\ Throw(r, MkError(impl, "pdf", out), log[r])
          /\ UNCHANGED pdfBuffer
  /\ UNCHANGED <<front, impl, timed, clients, body, fetch, quoteData, html, browser,
                 page, browsers, imgs, store, elapsed, pdfOptions>>

\* browser.close settles; the browser process is gone whether the promise
\* resolves or rejects.  In index.js and part_003 this is the end of the
\* finally block (a rejection is caught and logged); in part_004 the upload
\* follows, and a rejection reaches the catch block
CloseSettle(r, out) ==
  /\ pc[r] = "close"
  /\ Settled(r, "close", out)
  /\ out \in Outcomes(impl, "close")
  /\ browsers' = [browsers EXCEPT ![browser[r]].open = FALSE]
  /\ IF impl = "part_004"
     THEN IF out = "ok"
          THEN /\ fileName' = [fileName EXCEPT ![r] = UuidV4(r)]
               /\ Call(r, "upload")
               /\ UNCHANGED resp
          ELSE /\ Throw(r, MkError(impl, "close", out), log[r])
               /\ UNCHANGED fileName
     ELSE /\ log' = [log EXCEPT ![r] =
                       @ \o (IF out = "ok" THEN <<>> ELSE <<"console.error: close">>)]
          /\ Goto(r, "done")
          /\ UNCHANGED <<resp, fileName>>
  /\ UNCHANGED <<lastStamp, startStamp>>
  /\ UNCHANGED <<front, impl, timed, clients, body, fetch, quoteData, html, browser,
                 page, imgs, pdfBuffer, store, elapsed, pdfOptions>>

\* mutant: an upload error is only logged
UploadFatalNever(res) == FALSE

\* if (uploadError) throw  (part_004: return res.status(500))
UploadFatal(res) == res.error # NULL

\* storage.upload settles (and getPublicUrl after it); part_003 then inserts
\* a quote_pdfs row, the other snapshots send the success response
UploadSettle(r, res, pt) ==
  /\ pc[r] = "upload"
  /\ pt \in ProcessingTimes(impl, elapsed[r])
  /\ Settled(r, "upload", ResultKind(res))
  /\ IF UploadFatal(res)
     THEN /\ Throw(r, MkError(impl, "upload", res.error), log[r])
          /\ UNCHANGED store
     ELSE /\ store' = store \cup {[key |-> fileName[r], by |-> r,
                                   buffer |-> pdfBuffer[r]]}
          /\ IF impl = "part_003"
             THEN /\ Call(r, "insert")
                  /\ UNCHANGED resp
             ELSE Respond(r, Success(fileName[r], pt), log[r])
  /\ UNCHANGED <<front, impl, timed, clients, body, fetch, quoteData, html, browser,
                 page, browsers, imgs, pdfBuffer, elapsed, pdfOptions, naming>>

\* part_003: the insert into quote_pdfs settles; an error is only logged
InsertSettle(r, out) ==
  /\ pc[r] = "insert"
  /\ Settled(r, "insert", out)
  /\ out \in Outcomes(impl, "insert")
  /\ Respond(r, Success(fileName[r], elapsed[r]),
             log[r] \o (IF out = "ok" THEN <<>> ELSE <<"console.warn: insert">>))
  /\ UNCHANGED <<front, impl, timed, clients, body, fetch, quoteData, html, browser,
                 page, browsers, imgs, pdfBuffer, store, elapsed, pdfOptions, naming>>

\* time passes while the handler is suspended on a call; a call with a
\* deadline does not outlast it
Tick(r) ==
  /\ timed
  /\ pc[r] \notin {"idle", "done"}
  /\ elapsed[r] < MaxElapsed
  /\ OpTimeout(impl, pc[r]) # NoTimeout => phaseT[r] < OpTimeout(impl, pc[r])
  /\ elapsed' = [elapsed EXCEPT ![r] = @ + TickMs]
  /\ phaseT' = [phaseT EXCEPT ![r] =
                  IF OpTimeout(impl, pc[r]) # NoTimeout THEN @ + TickMs ELSE @]
  /\ UNCHANGED <<front, impl, timed, clients, pc, body, fetch, quoteData, html,
                 browser, page, browsers, imgs, pdfBuffer, resp, log, store,
                 outcomes, naming, pdfOptions>>

\* ------------------------------------------------------------ specifications
\* With concurrent requests the data of a request is drawn from the narrow
\* sets: default options, a profile without colours, a full rooms list, no
\* image complete when the image wait starts.
Narrow == Cardinality(clients) > 1

PlainBodies ==
  { [quoteId |-> q, hasOptions |-> TRUE, accentColor |-> c,
     pageSize |-> NoPageSize, flags |-> NoFlags] :
      q \in BOOLEAN, c \in OptionColors }

\* req.body without an options key
BareBodies ==
  { [quoteId |-> q, hasOptions |-> FALSE, accentColor |-> NoColor,
     pageSize |-> NoPageSize, flags |-> NoFlags] : q \in BOOLEAN }

BodiesIn ==
  IF Narrow THEN {b \in PlainBodies : b.accentColor = NoColor}
  ELSE PlainBodies \cup BareBodies

\* The requests of the handler carry the plain values of the fields that
\* only the markup depends on (no terms, no logo, rows like the example row):
\* the markup is checked on all values in SpecRender.
ProfilesIn ==
  IF Narrow
  THEN {res \in ProfileResults : res.data \subseteq {EmptyProfile}}
  ELSE {res \in ProfileResults : \A p \in res.data : p.logo_url = NoLogo}

RoomsIn ==
  IF Narrow THEN {res \in RoomResults : res.data \subseteq {MaxRooms}} ELSE RoomResults

QuotesIn ==
  IF Narrow
  THEN {res \in QuoteResults :
          \A q \in res.data :
            /\ q.terms = NoTerms
            /\ \A i \in 1..Len(q.customer_name) : q.customer_name[i] = "a"}
  ELSE {res \in QuoteResults : \A q \in res.data : q.terms = NoTerms}

PlainRows(n) == [i \in 1..n |-> PlainItem]

ItemsIn ==
  IF Narrow
  THEN {res \in LineItemResults : res.data \subseteq {PlainRows(MaxItems)}}
  ELSE {res \in LineItemResults : res.data \subseteq {PlainRows(n) : n \in 0..MaxItems}}

CompleteIn(n) == IF Narrow THEN {0} ELSE 0..n

Step(r) ==
  \/ \E b \in BodiesIn, fileId \in FileIds(impl) : Receive(r, b, fileId)
  \/ \E res \in QuotesIn : QuotesSettle(r, res)
  \/ \E res \in ItemsIn : ItemsSettle(r, res)
  \/ \E res \in ProfilesIn : ProfileSettle(r, res)
  \/ \E res \in RoomsIn, fsOk \in BOOLEAN : RoomsSettle(r, res, fsOk)
  \/ \E out \in {"ok", "error", "timeout"} : LaunchSettle(r, out)
  \/ \E out \in {"ok", "error"} : NewPageSettle(r, out)
  \/ \E out \in {"ok", "error", "timeout"}, n \in 0..MaxImgs :
       \E c \in CompleteIn(n) : SetContentSettle(r, out, n, c)
  \/ ImgEvent(r)
  \/ \E out \in {"ok", "error"} : ImageWaitSettle(r, out)
  \/ \E out \in {"ok", "error", "timeout"} : ReadySettle(r, out)
  \/ \E out \in {"ok", "error", "timeout"}, buf \in Buffers, fsOk \in BOOLEAN :
       \E now \in DateNow(impl, r) : PdfSettle(r, out, buf, fsOk, now)
  \/ \E out \in {"ok", "error"} : CloseSettle(r, out)
  \/ \E res \in UploadResults, pt \in ProcessingTimes(impl, elapsed[r]) :
       UploadSettle(r, res, pt)
  \/ \E out \in {"ok", "error"} : InsertSettle(r, out)

Next == \E r \in Reqs : Step(r)

NextTimed == \E r \in Reqs : Step(r) \/ Tick(r)

Spec == Init /\ [][Next]_vars

SpecConc == InitConc /\ [][Next]_vars

SpecTimed == InitTimed /\ [][NextTimed]_vars

\* the steps whose settling the code or its collaborators guarantee: the data
\* store and the storage return, a call with a deadline settles, the image
\* wait returns once its promise is resolved.  No image is bound to fire load
\* or error, and page.pdf without a deadline is not bound to resolve.
Guaranteed(r) ==
  \/ \E res \in QuotesIn : QuotesSettle(r, res)
  \/ \E res \in ItemsIn : ItemsSettle(r, res)
  \/ \E res \in ProfilesIn : ProfileSettle(r, res)
  \/ \E res \in RoomsIn, fsOk \in BOOLEAN : RoomsSettle(r, res, fsOk)
  \/ \E out \in {"ok", "error", "timeout"} : LaunchSettle(r, out)
  \/ \E out \in {"ok", "error"} : NewPageSettle(r, out)
  \/ \E out \in {"ok", "error", "timeout"}, n \in 0..MaxImgs :
       \E c \in 0..n : SetContentSettle(r, out, n, c)
  \/ ImageWaitSettle(r, "ok")
  \/ \E out \in {"ok", "error", "timeout"} : ReadySettle(r, out)
  \/ /\ OpTimeout(impl, "pdf") # NoTimeout
     /\ \E out \in {"ok", "error", "timeout"}, buf \in Buffers, fsOk \in BOOLEAN :
          \E now \in DateNow(impl, r) : PdfSettle(r, out, buf, fsOk, now)
  \/ \E out \in {"ok", "error"} : CloseSettle(r, out)
  \/ \E res \in UploadResults, pt \in ProcessingTimes(impl, elapsed[r]) :
       UploadSettle(r, res, pt)
  \/ \E out \in {"ok", "error"} : InsertSettle(r, out)

\* ---------------------------------------------- the markup, on all its inputs
\* The request of SpecRender has passed fetchQuoteData: its rows are drawn
\* from all the values of the fields the markup depends on, its options from
\* all option bags.  Colours and free text are those of the plain request.
RenderBodies == {b \in Bodies : b.quoteId /\ b.accentColor = NoColor}

RenderRows ==
  [quote : {Some(q) : q \in {x \in Quotes : x.customer_name = <<"a">>}},
   lineItems : {Some(l) : l \in ItemLists},
   companyProfile : {Some(p) : p \in {x \in Profiles : x.quote_accent_color = NoColor}}]

InitRender ==
  /\ Fresh(FALSE, {})
  /\ Passed
  /\ pc = [r \in Reqs |-> IF r = 1 THEN "rooms" ELSE "idle"]
  /\ body \in {[r \in Reqs |-> IF r = 1 THEN b ELSE NoBody] : b \in RenderBodies}
  /\ fetch \in {[r \in Reqs |-> IF r = 1 THEN f ELSE NoFetch] : f \in RenderRows}

\* fetchQuoteData returns and the handler builds the markup and the options
\* of page.pdf from the rows and the options bag
Prepare(r, quoteRooms) ==
  /\ clients = {}
  /\ pc[r] = "rooms"
  /\ LET qd == SanitizeData(impl, FetchResult(fetch[r], quoteRooms))
     IN /\ quoteData' = [quoteData EXCEPT ![r] = Some(qd)]
        /\ html' = [html EXCEPT ![r] =
                      IF HtmlThrows(impl, body[r]) THEN @
                      ELSE Some(GenerateQuoteHtml(impl, qd, body[r]))]
  /\ pdfOptions' = [pdfOptions EXCEPT ![r] =
                      IF HtmlThrows(impl, body[r]) THEN @
                      ELSE Some(PdfOptions(impl, body[r]))]
  /\ Goto(r, IF HtmlThrows(impl, body[r]) THEN "thrown" ELSE "prepared")
  /\ UNCHANGED <<front, impl, timed, clients, body, fetch, browser, page, browsers, imgs,
                 pdfBuffer, resp, log, store, elapsed, outcomes, naming>>

NextRender == \E r \in Reqs, n \in 0..MaxRooms : Prepare(r, Some(n))

SpecRender == InitRender /\ [][NextRender]_vars

\* --------------------------------------------- the middleware, on all requests
\* the variables of the handler, but for the responses
behind == <<impl, timed, clients, pc, body, fetch, quoteData, html, browser,
            page, browsers, imgs, pdfBuffer, log, store, elapsed, phaseT,
            outcomes, pdfOptions, naming>>

Move(r, to) == gate' = [gate EXCEPT ![r].at = to]

\* cors(corsOptions): the origin callback is called with true or with an Error
CorsOrigin(r) ==
  /\ r \in clients
  /\ gate[r].at = "cors"
  /\ Move(r, IF IsOriginAllowed(impl, allowedOrigins, gate[r].origin)
             THEN "verifyToken" ELSE "rejected")
  /\ UNCHANGED <<behind, resp, allowedOrigins>>

\* verifyToken up to its await
VerifyToken(r) ==
  /\ gate[r].at = "verifyToken"
  /\ IF NoBearer(gate[r].authorization)
     THEN /\ resp' = [resp EXCEPT ![r] = Append(@, Unauthorized("No token provided"))]
          /\ Move(r, "answered")
     ELSE /\ Move(r, "getUser")
          /\ UNCHANGED resp
  /\ UNCHANGED <<behind, allowedOrigins>>

\* supabase.auth.getUser settles: 401, next() or the catch block
GetUserSettle(r, res) ==
  /\ gate[r].at = "getUser"
  /\ IF res = "rejects"
     THEN /\ resp' = [resp EXCEPT ![r] = Append(@, AuthError)]
          /\ gate' = [gate EXCEPT ![r].at = "answered", ![r].user = res]
     ELSE IF TokenRejected(res)
     THEN /\ resp' = [resp EXCEPT ![r] = Append(@, Unauthorized("Invalid token"))]
          /\ gate' = [gate EXCEPT ![r].at = "answered", ![r].user = res]
     ELSE /\ gate' = [gate EXCEPT ![r].at = "next", ![r].user = res, ![r].nexts = @ + 1]
          /\ UNCHANGED resp
  /\ UNCHANGED <<behind, allowedOrigins>>

InitGate ==
  /\ Fresh(FALSE, {1})
  /\ Idle
  /\ allowedOrigins \in AllowedLists
  /\ gate \in {[r \in Reqs |-> Arriving(o, h)] :
                 o \in Origins \cup {NoOrigin}, h \in Authorizations}

NextGate ==
  \E r \in Reqs :
    \/ CorsOrigin(r)
    \/ VerifyToken(r)
    \/ \E res \in GetUserResults : GetUserSettle(r, res)
    \/ \E b \in BareBodies, fileId \in FileIds(impl) : Receive(r, b, fileId)

SpecGate == InitGate /\ [][NextGate]_vars

SpecLive == Init /\ [][Next]_vars /\ \A r \in Reqs : WF_vars(Guaranteed(r))

\* -------------------------------------------------------- state predicates
Responded(r) == Len(resp[r]) > 0

Failed(r) == \E i \in 1..Len(resp[r]) : resp[r][i].status = 500

Succeeded(r) == \E i \in 1..Len(resp[r]) : resp[r][i].status = 200

Launched(r) == browser[r] # 0

BrowserOpen(r) == Launched(r) /\ browsers[browser[r]].open

OpenBrowsers == {i \in 1..Len(browsers) : browsers[i].open}

Uploaded(r) == \E u \in store : u.by = r

Outcome(r, op, out) == <<op, out>> \in outcomes[r]

\* ------------------------------------------------------------------- claims

\* C1: for every request in which the browser was launched, browser.close()
\* has been invoked exactly once when the handler finishes (and never more
\* than once before), whichever step after the launch succeeded or threw.
C1_CloseExactlyOnce ==
  \A r \in Reqs :
    /\ Count(log[r], "close") <= 1
    /\ (pc[r] = "done" /\ Launched(r)) => Count(log[r], "close") = 1

\* C2: on every failing path after the launch, the browser is closed before
\* the error response is sent: whenever an error response has been sent for a
\* request that launched a browser, that browser is no longer open.
C2_TeardownBeforeError ==
  \A r \in Reqs : (Launched(r) /\ Failed(r)) => ~BrowserOpen(r)

\* C3: under any interleaving of concurrent requests, a request owns at most
\* one browser instance, launched only after its data fetch and markup
\* generation succeeded; its page lives in its own instance; and once every
\* request has returned no browser instance is open.
C3_OneBrowserPerRequest ==
  /\ \A r \in Reqs :
       /\ Cardinality({i \in 1..Len(browsers) : browsers[i].owner = r}) <= 1
       /\ Launched(r) => browsers[browser[r]].owner = r
       /\ page[r] # 0 => browsers[page[r]].owner = r
       /\ Has(log[r], "launch") =>
            (quoteData[r] # Null /\ html[r] # Null /\ Before(log[r], "html", "launch"))
  /\ (\A r \in clients : pc[r] = "done") => OpenBrowsers = {}

\* C4: every accepted request eventually receives a response, also when an
\* image never fires load or error, when set-content never settles and when
\* page.pdf never resolves.
C4_AlwaysAnswered ==
  \A r \in Reqs : (pc[r] # "idle") ~> Responded(r)

\* C5: the whole request is bounded by REQUEST_TIMEOUT (in the snapshots that
\* define it): once that much time has elapsed since the start of the request,
\* the caller has received a response.
C5_RequestDeadline ==
  \A r \in Reqs :
    (impl \in {"part_003", "part_004"} /\ pc[r] # "idle" /\ elapsed[r] >= REQUEST_TIMEOUT)
      => Responded(r)

\* the calls the handler has issued
Issued(r, op) == Has(log[r], op)

\* every response sent for r is a 500 whose message comes from one of `ops`
FailedIn(r, ops) ==
  /\ Failed(r)
  /\ \A i \in 1..Len(resp[r]) :
       resp[r][i].status = 500 /\ resp[r][i].message.op \in ops

\* C6: if the quote lookup returns an error or no row, the request fails and
\* nothing further is done: no line-item, profile or rooms query, no browser
\* launch, no upload.
C6_QuoteFailureStopsAll ==
  \A r \in Reqs :
    (Outcome(r, "quotes", "error") \/ Outcome(r, "quotes", "norow")) =>
      /\ FailedIn(r, {"quotes"})
      /\ pc[r] = "done"
      /\ \A op \in {"items", "profile", "rooms", "launch", "upload"} : ~Issued(r, op)
      /\ ~Launched(r)
      /\ ~Uploaded(r)

C6_Witness ==
  \E r \in Reqs : Outcome(r, "quotes", "norow") /\ Failed(r) /\ pc[r] = "done"

\* C7: if the line-items query returns an error (the quote lookup succeeded),
\* the request fails with no browser launch and no upload, and fetchQuoteData
\* returns nothing: the failure is not turned into an empty list.
C7_LineItemsFailureFatal ==
  \A r \in Reqs :
    Outcome(r, "items", "error") =>
      /\ Outcome(r, "quotes", "ok")
      /\ FailedIn(r, {"items"})
      /\ pc[r] = "done"
      /\ quoteData[r] = Null
      /\ \A op \in {"profile", "rooms", "launch", "upload"} : ~Issued(r, op)
      /\ ~Launched(r)
      /\ ~Uploaded(r)

C7_Witness ==
  \E r \in Reqs : Outcome(r, "items", "error") /\ Failed(r) /\ pc[r] = "done"

ProfileFailed(r) == Outcome(r, "profile", "error")

RoomsFailed(r) == Outcome(r, "rooms", "error")

\* C8: if the company-profile query and/or the rooms query fails (quote and
\* line items succeeded), the pipeline does not abort: fetchQuoteData returns
\* with an empty profile and an empty rooms list in their place, the markup
\* of index.js and part_003 takes the accent colour '#3b82f6' unless the
\* request options give one, the browser launch is issued (unless the temp
\* file write of the markup fails), and no response blames the optional query.
C8_OptionalFailuresTolerated ==
  \A r \in Reqs : impl # "part_001" =>
    /\ (ProfileFailed(r) /\ pc[r] # "rooms") =>
         /\ quoteData[r] # Null
         /\ Val(quoteData[r]).companyProfile = EmptyProfile
         /\ impl # "part_004" =>
              Val(html[r]).accentColor =
                (IF body[r].accentColor # NoColor
                 THEN body[r].accentColor ELSE DefaultAccent)
    /\ RoomsFailed(r) =>
         /\ quoteData[r] # Null
         /\ Val(quoteData[r]).rooms = 0
    /\ ((ProfileFailed(r) /\ pc[r] # "rooms") \/ RoomsFailed(r)) =>
         /\ Outcome(r, "quotes", "ok") /\ Outcome(r, "items", "ok")
         /\ Issued(r, "launch") \/ FailedIn(r, {"writeHtml"})
    /\ \A i \in 1..Len(resp[r]) : resp[r][i].message.op \notin {"profile", "rooms"}

\* the optional queries failed and the request reached the success response
C8_Witness ==
  \E r \in Reqs :
    /\ ProfileFailed(r) /\ RoomsFailed(r)
    /\ body[r].accentColor = NoColor
    /\ impl = "index"
    /\ Val(html[r]).accentColor = DefaultAccent
    /\ Succeeded(r)

\* C9: if the browser fails to launch, or does not launch within its startup
\* timeout, the request ends with a failure that carries the launch error, and
\* no storage upload is attempted for it.
C9_LaunchFailureNoUpload ==
  \A r \in Reqs :
    (Outcome(r, "launch", "error") \/ Outcome(r, "launch", "timeout")) =>
      /\ FailedIn(r, {"launch"})
      /\ pc[r] = "done"
      /\ ~Launched(r)
      /\ ~Issued(r, "upload")
      /\ ~Uploaded(r)

C9_Witness ==
  \E r \in Reqs : Outcome(r, "launch", "timeout") /\ Failed(r) /\ pc[r] = "done"

ContentSettleTimeout(r) ==
  Outcome(r, "setContent", "timeout") \/ Outcome(r, "ready", "timeout")

C11_EmptyArtifactRejected ==
  \A r \in Reqs :
    (impl # "part_001" /\ Outcome(r, "pdf", "empty")) =>
      /\ FailedIn(r, {"pdf"})
      /\ ~Issued(r, "upload")
      /\ ~Uploaded(r)
      /\ ~Succeeded(r)

\* C12: if the storage upload returns an error, the request fails with the
\* upload failure, no success response is sent, nothing is stored for the
\* request and the upload is issued only once.
C12_UploadFailureFatal ==
  \A r \in Reqs :
    Outcome(r, "upload", "error") =>
      /\ FailedIn(r, {"upload"})
      /\ \A i \in 1..Len(resp[r]) : resp[r][i].message.prefix = "Failed to upload PDF"
      /\ ~Succeeded(r)
      /\ ~Uploaded(r)
      /\ Count(log[r], "upload") = 1
      /\ pc[r] \in {"close", "done"}

C12_Witness ==
  \E r \in Reqs : Outcome(r, "upload", "error") /\ Failed(r) /\ pc[r] = "done"


\* the phases of one request, in the order of the handler
PhaseOrder == <<"quotes", "items", "html", "launch", "setContent", "pdf", "upload">>

\* C13: within one request the phases run in the order fetch, markup, browser
\* launch, content settle, PDF, upload, response: a phase is only entered
\* after every earlier one, the browser is launched only after fetchQuoteData
\* returned its data, the upload starts only after page.pdf returned its
\* buffer, and the success response comes after the upload.
C13_PhaseOrder ==
  \A r \in Reqs :
    /\ \A i, j \in 1..Len(PhaseOrder) :
         i < j => Before(log[r], PhaseOrder[i], PhaseOrder[j])
    /\ Issued(r, "launch") =>
         /\ Outcome(r, "quotes", "ok") /\ Outcome(r, "items", "ok")
         /\ quoteData[r] # Null /\ html[r] # Null
    /\ Issued(r, "upload") =>
         /\ Outcome(r, "pdf", "bytes") \/ Outcome(r, "pdf", "empty")
         /\ pdfBuffer[r] # NULL
    /\ Succeeded(r) =>
         /\ Uploaded(r)
         /\ Before(log[r], "upload", "respond")

C13_Witness ==
  \E r \in Reqs : Succeeded(r) /\ pc[r] = "done" /\ Issued(r, "launch")


\* C15: a quote with zero line items never produces a success response and
\* nothing is uploaded for it.
C15_NoItemsNoSuccess ==
  \A r \in Reqs :
    (impl # "part_001" /\ quoteData[r] # Null /\ Val(quoteData[r]).lineItems = <<>>) =>
      ~Succeeded(r) /\ ~Uploaded(r)


\* the success responses sent for r
SuccessResponses(r) == {resp[r][i] : i \in {j \in 1..Len(resp[r]) : resp[r][j].status = 200}}

\* C14: any two invocations for the same quote and options, sequential or
\* concurrent, store their artifacts under distinct keys and return distinct
\* locators: no upload lands on the key of another invocation's upload.
C14_DistinctLocators ==
  \A r1, r2 \in Reqs :
    (impl # "part_001" /\ r1 # r2) =>
      /\ \A u1, u2 \in store : (u1.by = r1 /\ u2.by = r2) => u1.key # u2.key
      /\ \A s1 \in SuccessResponses(r1), s2 \in SuccessResponses(r2) :
           s1.documentUrl # s2.documentUrl

\* the degraded-input list of a response (empty when it carries none)
DegradedInput(response) ==
  IF "degradedInput" \in DOMAIN response THEN response.degradedInput ELSE {}

\* C16: when the company-profile lookup fails and everything else succeeds,
\* the success response carries a degraded-input list that contains
\* branding_profile.
C16_DegradedInputReported ==
  \A r \in Reqs :
    (impl # "part_001" /\ ProfileFailed(r)) =>
      \A s \in SuccessResponses(r) : "branding_profile" \in DegradedInput(s)

\* C19: the processingTime of a success response is the time elapsed between
\* the start of the handling of the request and the construction of the
\* response.
C19_ProcessingTimeIsElapsed ==
  [][\A r \in Reqs :
       (Len(resp'[r]) > Len(resp[r]) /\ resp'[r][Len(resp'[r])].status = 200) =>
         resp'[r][Len(resp'[r])].processingTime = elapsed[r]]_vars


\* the calls the handler issues for one request
Phases ==
  {"quotes", "items", "profile", "rooms", "html", "launch", "newPage",
   "setContent", "imageWait", "ready", "pdf", "upload", "insert", "close"}

\* the entries of the log after the first response
AfterFirstResponse(r) ==
  LET k == CHOOSE i \in 1..Len(log[r]) :
             log[r][i] = "respond" /\ \A j \in 1..(i - 1) : log[r][j] # "respond"
  IN {log[r][i] : i \in (k + 1)..Len(log[r])}

\* a failure the handler never retries: quote lookup, line-items lookup, the
\* empty-artifact check, the upload
DataOrOutputFailure(r) ==
  \/ FailedIn(r, {"quotes", "items", "upload"})
  \/ \E i \in 1..Len(resp[r]) :
       resp[r][i].status = 500 /\ resp[r][i].message.cause = "empty buffer"

\* C17: no phase is executed twice for a request (fetch, launch, render and
\* upload are each issued at most once), and after a failure of the quote
\* lookup, the line-items lookup, the empty-artifact check or the upload
\* nothing but the teardown of the browser follows.
C17_NoRetryAfterFailure ==
  \A r \in Reqs :
    /\ \A op \in Phases : Count(log[r], op) <= 1
    /\ Cardinality({i \in 1..Len(browsers) : browsers[i].owner = r}) <= 1
    /\ DataOrOutputFailure(r) =>
         /\ pc[r] \in {"close", "done"}
         /\ AfterFirstResponse(r) \subseteq {"close", "console.error: close"}

C17_Witness ==
  \E r \in Reqs :
    /\ DataOrOutputFailure(r) /\ Outcome(r, "upload", "error")
    /\ pc[r] = "done" /\ Count(log[r], "launch") = 1


\* the request ended in a failure with a transient infrastructure cause: the
\* browser did not start, or a phase ran into its deadline
TransientFailure(r) ==
  /\ pc[r] = "done"
  /\ \E i \in 1..Len(resp[r]) :
       /\ resp[r][i].status = 500
       /\ resp[r][i].message.op = "launch" \/ resp[r][i].message.cause = "timeout"

\* C18: a generation that fails for a transient reason is retried up to
\* MAX_GENERATION_RETRIES times, each time with a new browser: a request is
\* only answered with a transient failure after 1 + MAX_GENERATION_RETRIES
\* launches.
C18_TransientFailureRetried ==
  \A r \in Reqs :
    TransientFailure(r) => Count(log[r], "launch") = 1 + MAX_GENERATION_RETRIES


\* the characters that introduce markup
Special == {"<", ">", "\"", "'"}

Entities == {AMP, LT, GT, QUOT, APOS}

\* no character of s introduces markup: none of < > " ' occurs, and every &
\* starts one of the five entities
Escaped(s) ==
  \A i \in 1..Len(s) :
    /\ s[i] \notin Special
    /\ s[i] = "&" =>
         \E e \in Entities :
           i + Len(e) - 1 <= Len(s) /\ SubSeq(s, i, i + Len(e) - 1) = e

\* C20: every free-text field of the fetched data reaches the markup with
\* &, <, >, " and ' escaped.
C20_FreeTextEscaped ==
  \A r \in Reqs :
    (impl # "part_001" /\ html[r] # Null) => Escaped(Val(html[r]).customerName)


\* the number a reader takes from a displayed number
DisplayedValue(d) == IF d.style = "GBP" THEN d.pounds * 100 + d.pence ELSE d.v

Columns == {"quantity", "unit_price", "subtotal"}

\* the request went through the markup generation with its rows at hand
Rendered(r) == html[r] # Null /\ fetch[r].lineItems # Null

\* C21: every numeric field of the fetched rows that is NaN or an infinity
\* reaches the markup as 0, every finite number reaches it unchanged, and
\* the markup has one row per fetched row.
C21_NumbersCoerced ==
  \A r \in Reqs :
    Rendered(r) =>
      LET stored == Val(fetch[r].lineItems)
          rows == Val(html[r]).rows
      IN /\ Len(rows) = Len(stored)
         /\ \A n \in 1..Len(stored), c \in Columns :
              /\ rows[n][c].k = "num"
              /\ DisplayedValue(rows[n][c]) =
                   (IF stored[n][c].k = "num" THEN stored[n][c].v ELSE 0)

\* the stored row is self-consistent: finite numbers, quantity >= 0 and
\* subtotal = quantity x unit_price
Consistent(it) ==
  /\ \A c \in Columns : it[c].k = "num"
  /\ it.quantity.v >= 0
  /\ it.subtotal.v = it.quantity.v * it.unit_price.v

\* C22: for every self-consistent stored row the markup shows the stored
\* subtotal, and the displayed quantity times the displayed unit price is
\* the displayed subtotal.
C22_SubtotalPreserved ==
  \A r \in Reqs :
    Rendered(r) =>
      LET stored == Val(fetch[r].lineItems)
          rows == Val(html[r]).rows
      IN \A n \in 1..Len(stored) :
           Consistent(stored[n]) =>
             /\ DisplayedValue(rows[n].subtotal) = stored[n].subtotal.v
             /\ DisplayedValue(rows[n].quantity) * DisplayedValue(rows[n].unit_price)
                  = DisplayedValue(rows[n].subtotal)

\* the paper a size name stands for: puppeteer and CSS read it without
\* regard to case
Paper(name) ==
  CASE name \in {"a4", "A4"} -> "a4"
    [] name \in {"letter", "Letter"} -> "letter"
    [] OTHER -> name

\* C24: for every value of options.pageSize the page size declared by the
\* markup is the page size requested from page.pdf, and an absent pageSize
\* gives A4.
C24_PageSizeAgrees ==
  \A r \in Reqs :
    (html[r] # Null /\ pdfOptions[r] # Null /\ Val(html[r]).pageSize # NoPageSize) =>
      /\ Paper(Val(html[r]).pageSize) = Paper(Val(pdfOptions[r]).format)
      /\ body[r].pageSize = NoPageSize => Paper(Val(html[r]).pageSize) = "a4"

\* the section each inclusion flag governs
SectionOf(flag) ==
  CASE flag = "includeTitle" -> "title"
    [] flag = "includeLogo" -> "logo"
    [] flag = "includeTerms" -> "terms"
    [] flag = "includePricing" -> "pricing"
    [] flag = "includeRooms" -> "rooms"

\* C25: an inclusion flag set to false removes its section from the markup,
\* and the rooms section is rendered only when includeRooms is true and the
\* rooms list is not empty.
C25_FlagsHonoured ==
  \A r \in Reqs :
    html[r] # Null =>
      /\ \A flag \in Flags :
           body[r].flags[flag] = "false" => SectionOf(flag) \notin Val(html[r]).sections
      /\ "rooms" \in Val(html[r]).sections =>
           body[r].flags["includeRooms"] = "true" /\ Val(quoteData[r]).rooms > 0


\* C23: a request that carries a quoteId but no options bag, or a bag with
\* keys missing, never fails for that reason: the markup generation does not
\* throw, and such a request can succeed.
C23_AbsentOptionsTolerated ==
  \A r \in Reqs :
    \A i \in 1..Len(resp[r]) : resp[r][i].message.op # "html"


\* C26: the wait for the images of index.js always completes: once every
\* image has loaded or failed the step is left, and an image that never fires
\* load or error holds the step only up to its own wait ceiling.
C26_ImageWaitCompletes ==
  \A r \in Reqs : (pc[r] = "imageWait") ~> (pc[r] # "imageWait")


\* the request arrived without a quoteId
NoQuoteId(r) == pc[r] # "idle" /\ ~body[r].quoteId

\* C27: a request whose body has no quoteId is answered with HTTP 400 and
\* nothing else happens for it: the handler issues no data-store query, no
\* browser launch, no temp-file write and no upload, it has finished, and no
\* browser is open for the request.
C27_MissingQuoteIdRejected ==
  \A r \in Reqs :
    NoQuoteId(r) =>
      /\ resp[r] = <<BadRequest(impl)>>
      /\ log[r] = <<"respond">>
      /\ outcomes[r] = {}
      /\ quoteData[r] = Null /\ html[r] = Null /\ pdfBuffer[r] = NULL
      /\ ~Launched(r)
      /\ ~Uploaded(r)
      /\ pc[r] = "done"

C27_Witness ==
  \E r \in Reqs : NoQuoteId(r) /\ resp[r] = <<BadRequest(impl)>> /\ pc[r] = "done"


\* the origin callback let the request through
Accepted(r) == gate[r].at \notin {"cors", "rejected"}

\* C28: a request with an Origin header gets past the CORS middleware of
\* index.js, part_003 and part_004 only if its Origin equals one of the
\* entries of CORS_ORIGIN or the list contains '*'.
C28_OnlyListedOrigins ==
  \A r \in Reqs :
    (impl # "part_001" /\ gate[r].origin # NoOrigin /\ Accepted(r)) =>
      (gate[r].origin \in allowedOrigins \/ Star \in allowedOrigins)

\* the bearer token of the request was verified by the auth service
Verified(r) == gate[r].authorization = "Bearer" /\ gate[r].user = "user"

\* the handler has run for the request
PipelineStarted(r) ==
  \/ pc[r] # "idle"
  \/ log[r] # <<>>
  \/ outcomes[r] # {}
  \/ Launched(r)
  \/ Uploaded(r)

\* the responses verifyToken has sent
AuthResponses(r) == {i \in 1..Len(resp[r]) : resp[r][i].message.op = "verifyToken"}

\* C30: the handler runs only for requests whose bearer token was verified.
\* A request that verifyToken answers itself (no Bearer header, a token the
\* auth service rejects, an exception) has exactly one response, a 401 or a
\* 500, and no pipeline action; and verifyToken never both calls next() and
\* sends a response.
C30_OnlyVerifiedRequestsRun ==
  \A r \in Reqs :
    /\ PipelineStarted(r) => (Verified(r) /\ gate[r].at = "next")
    /\ gate[r].at = "answered" =>
         /\ ~Verified(r)
         /\ Len(resp[r]) = 1
         /\ resp[r][1].status \in {401, 500}
         /\ ~PipelineStarted(r)
    /\ gate[r].nexts + Cardinality(AuthResponses(r)) <= 1
    /\ gate[r].nexts = 1 <=> gate[r].at = "next"

C30_Witness ==
  \E r \in Reqs :
    /\ gate[r].at = "answered"
    /\ gate[r].user = "error"
    /\ resp[r] = <<Unauthorized("Invalid token")>>


\* no request has been answered twice, and a request whose handler has run
\* to its end has been answered
AnsweredOnce ==
  \A r \in Reqs :
    /\ Len(resp[r]) <= 1
    /\ pc[r] = "done" => Len(resp[r]) = 1

\* C29: every request that reaches the handler is sent exactly one HTTP
\* response: it is never answered twice, and it is eventually answered,
\* whichever step of the handler succeeds, fails or does not return.
C29_ExactlyOneResponse ==
  /\ []AnsweredOnce
  /\ \A r \in Reqs : (pc[r] # "idle") ~> (Len(resp[r]) = 1)

====
